---- MODULE Spec2Model ----
(***************************************************************************)
(* State-machine model of the Game orchestrator of GameGraphicsEngine      *)
(* (src/GameGraphicsEngine/Game.cpp): construction, Init, the frame pump   *)
(* (Update then Draw), window resize, mouse input and the destructor.      *)
(***************************************************************************)
EXTENDS Integers, Sequences, FiniteSets, TLC

VARIABLES
    pc,            \* position of the single thread: constructed / loop / updated / draw / exited / destroyed / crashed
    dpc,           \* index of the next statement of Draw (0 outside Draw)
    frame,         \* number of Update calls issued by the frame pump
    files,         \* the file system: which shader paths can be loaded
    handle,        \* every pointer field of Game: Uninit / Null / Live / Released
    acquireLog,    \* fields assigned by Init, in order
    releaseLog,    \* fields released or deleted by ~Game, in order
    emitterArgs,   \* the handles the Emitter constructor received
    loadLog,       \* per shader: the LoadShaderFile calls made and their results
    entity,        \* per entity: mesh, material, world matrix stale or not
    camera,        \* projection arguments and yaw / pitch accumulators
    width, height, \* client area size kept by the base layer
    surface,       \* size of the swap chain surface rebuilt by the base layer
    ctx,           \* device context pipeline state
    frameLog,      \* graphics operations recorded by the current / last Draw
    quitRequested, \* Quit() has been called
    lastKey,       \* GetAsyncKeyState(VK_ESCAPE) as read by the last Update
    prevMousePos,  \* Game::prevMousePos
    lastEvent,     \* the last mouse event delivered and the state it found
    rotateCalls,   \* arguments of the RotateCamera calls made so far
    captured,      \* the window holds the mouse capture
    mouseCount     \* number of mouse events delivered

vars == << pc, dpc, frame, files, handle, acquireLog, releaseLog, emitterArgs,
           loadLog, entity, camera, width, height, surface, ctx, frameLog,
           quitRequested, lastKey, prevMousePos, lastEvent, rotateCalls,
           captured, mouseCount >>

(* ---------------------------- bounds ----------------------------------- *)
MaxFrames == 2

MaxCoord == 1

MaxMouseEvents == 2

(* ---------------------------- constants -------------------------------- *)
InitWidth == 1280

InitHeight == 720

Sizes == { <<1280, 720>>, <<800, 600>>, <<640, 480>> }

Coords == 0..MaxCoord

Positions == Coords \X Coords

ButtonStates == 0..3

KeyStates == {0, 1, 32768, 32769}

Entities == {"entityOne", "entityTwo", "entityThree"}

Shaders == {"vertexShader", "pixelShader", "particleVS", "particlePS"}

Fields == {"vertexShader", "pixelShader", "particleVS", "particlePS",
           "sphereMesh", "helixMesh", "cubeMesh",
           "entityOne", "entityTwo", "entityThree",
           "gameCamera", "mat1", "mat2",
           "particleTexture", "particleBlendState", "particleDepthState",
           "emitter", "sampler", "rockSRV", "woodSRV"}

PrimaryPath == [ vertexShader |-> "Debug/VertexShader.cso",
                 pixelShader  |-> "Debug/PixelShader.cso",
                 particleVS   |-> "Debug/ParticleVS.cso",
                 particlePS   |-> "Debug/ParticlePS.cso" ]

FallbackPath == [ vertexShader |-> "VertexShader.cso",
                  pixelShader  |-> "PixelShader.cso",
                  particleVS   |-> "ParticleVS.cso",
                  particlePS   |-> "ParticlePS.cso" ]

Paths == { PrimaryPath[s] : s \in Shaders } \cup { FallbackPath[s] : s \in Shaders }

\* every combination of present / missing compiled shader files
AllFS == [Paths -> BOOLEAN]

\* the two working directories the source names: project directory
\* (Debug/ paths resolve) and output directory (bare paths resolve)
DeployFS == { [p \in Paths |-> p \in { PrimaryPath[s] : s \in Shaders }],
              [p \in Paths |-> p \in { FallbackPath[s] : s \in Shaders }] }

(* ---------------------------- helpers ---------------------------------- *)
SeqToSet(s) == { s[i] : i \in 1..Len(s) }

NoDuplicates(s) == \A i, j \in 1..Len(s) : i # j => s[i] # s[j]

RECURSIVE GCD(_, _)
GCD(a, b) == IF b = 0 THEN a ELSE GCD(b, a % b)

\* aspect ratio width / height as a reduced fraction
Aspect(p) == << p[1] \div GCD(p[1], p[2]), p[2] \div GCD(p[1], p[2]) >>

VertexBufferOf(m) == << m, "VB" >>

IndexBufferOf(m) == << m, "IB" >>

IndexCountOf(m) == << m, "count" >>

(* ---------------------------- construction ----------------------------- *)
\* Game::Game sets vertexShader and pixelShader to 0 and nothing else
Constructed ==
    /\ pc = "constructed"
    /\ dpc = 0
    /\ frame = 0
    /\ handle = [f \in Fields |->
                    IF f \in {"vertexShader", "pixelShader"} THEN "Null" ELSE "Uninit"]
    /\ acquireLog = << >>
    /\ releaseLog = << >>
    /\ emitterArgs = [device |-> "Uninit", vs |-> "Uninit", ps |-> "Uninit", tex |-> "Uninit"]
    /\ loadLog = [s \in Shaders |-> << >>]
    /\ entity = [e \in Entities |-> [mesh |-> "none", mat |-> "none", dirty |-> FALSE]]
    /\ camera = [proj |-> <<0, 0>>, yaw |-> 0, pitch |-> 0]
    /\ width = InitWidth
    /\ height = InitHeight
    /\ surface = << InitWidth, InitHeight >>
    /\ ctx = [vb |-> VertexBufferOf("none"), ib |-> IndexBufferOf("none"),
              prepared |-> "none", blend |-> "null", depth |-> "null",
              topology |-> "undefined"]
    /\ frameLog = << >>
    /\ quitRequested = FALSE
    /\ lastKey = 0
    /\ prevMousePos = [valid |-> FALSE, x |-> 0, y |-> 0]
    /\ lastEvent = [kind |-> "none", bs |-> 0, pos |-> <<0, 0>>,
                    storedBefore |-> [valid |-> FALSE, x |-> 0, y |-> 0],
                    readPrev |-> <<0, 0>>,
                    camBefore |-> [proj |-> <<0, 0>>, yaw |-> 0, pitch |-> 0],
                    callsBefore |-> 0, hadPrior |-> FALSE, priorPos |-> <<0, 0>>]
    /\ rotateCalls = << >>
    /\ captured = FALSE
    /\ mouseCount = 0

Init == Constructed /\ files \in AllFS

InitDeployed == Constructed /\ files \in DeployFS

(* ---------------------------- Init ------------------------------------- *)
\* an out-parameter or "new" assignment to a pointer field
Acquire(st, f) == [h |-> [st.h EXCEPT ![f] = "Live"], acq |-> Append(st.acq, f)]

\* SimpleShader::LoadShaderFile succeeds when the file can be read
LoadShaderFile(fs, path) == fs[path]

\* variant: the fallback path is loaded whether or not the primary load succeeded
LoadOne_AlwaysFallback(fs, primary, fallback) ==
    << [path |-> primary, ok |-> LoadShaderFile(fs, primary)],
       [path |-> fallback, ok |-> LoadShaderFile(fs, fallback)] >>

\* if (!shader->LoadShaderFile(primary)) shader->LoadShaderFile(fallback);
LoadOne(fs, primary, fallback) ==
    IF ~LoadShaderFile(fs, primary)
    THEN << [path |-> primary, ok |-> FALSE],
            [path |-> fallback, ok |-> LoadShaderFile(fs, fallback)] >>
    ELSE << [path |-> primary, ok |-> TRUE] >>

\* Game::LoadShaders: four shader objects, then the two materials
LoadShadersHandles(st) ==
    Acquire(Acquire(Acquire(Acquire(Acquire(Acquire(st,
        "vertexShader"), "pixelShader"), "particleVS"), "particlePS"),
        "mat1"), "mat2")

LoadShadersLog(fs) ==
    [s \in Shaders |-> LoadOne(fs, PrimaryPath[s], FallbackPath[s])]

\* Camera::SetProjectionMat(width, height)
SetProjectionMat(cam, w, h) == [cam EXCEPT !.proj = << w, h >>]

\* Game::CreateMatrices
CreateMatricesHandles(st) == Acquire(st, "gameCamera")

\* Entity transform setters mark the world matrix stale; FinalizeMatrix recomputes it
SetPosition(ent, e) == [ent EXCEPT ![e].dirty = TRUE]

SetRotation(ent, e) == [ent EXCEPT ![e].dirty = TRUE]

SetScale(ent, e) == [ent EXCEPT ![e].dirty = TRUE]

FinalizeMatrix(ent, e) == [ent EXCEPT ![e].dirty = FALSE]

\* Game::CreateBasicGeometry
CreateBasicGeometryHandles(st) ==
    Acquire(Acquire(Acquire(Acquire(Acquire(Acquire(st,
        "sphereMesh"), "helixMesh"), "cubeMesh"),
        "entityOne"), "entityTwo"), "entityThree")

CreateBasicGeometryEntities ==
    LET e0 == [e \in Entities |->
                 CASE e = "entityOne"   -> [mesh |-> "sphereMesh", mat |-> "mat2", dirty |-> FALSE]
                   [] e = "entityTwo"   -> [mesh |-> "cubeMesh",   mat |-> "mat1", dirty |-> FALSE]
                   [] e = "entityThree" -> [mesh |-> "helixMesh",  mat |-> "mat1", dirty |-> FALSE]]
    IN SetRotation(SetPosition(SetScale(SetPosition(SetScale(SetPosition(e0,
           "entityOne"), "entityOne"), "entityTwo"), "entityTwo"),
           "entityThree"), "entityThree")

\* the handles Init passes to the Emitter constructor, read at that moment
EmitterCtorArgs(h) ==
    [device |-> "Live", vs |-> h["particleVS"], ps |-> h["particlePS"],
     tex |-> h["particleTexture"]]

\* Game::Init
GameInit ==
    /\ pc = "constructed"
    /\ LET s0 == [h |-> handle, acq |-> acquireLog]
           s1 == Acquire(Acquire(Acquire(Acquire(Acquire(s0,
                     "rockSRV"), "woodSRV"), "sampler"),
                     "particleDepthState"), "particleBlendState")
           args == EmitterCtorArgs(s1.h)
           s2 == Acquire(s1, "emitter")
           s3 == LoadShadersHandles(s2)
           s4 == CreateMatricesHandles(s3)
           s5 == CreateBasicGeometryHandles(s4)
       IN /\ emitterArgs' = args
          /\ handle' = s5.h
          /\ acquireLog' = s5.acq
    /\ loadLog' = LoadShadersLog(files)
    /\ camera' = SetProjectionMat(camera, width, height)
    /\ entity' = CreateBasicGeometryEntities
    /\ ctx' = [ctx EXCEPT !.topology = "TRIANGLELIST"]
    /\ pc' = "loop"
    /\ UNCHANGED << dpc, frame, files, releaseLog, width, height, surface,
                    frameLog, quitRequested, lastKey, prevMousePos, lastEvent,
                    rotateCalls, captured, mouseCount >>

(* ---------------------------- OnResize --------------------------------- *)
\* variant: the projection is not recomputed on resize
OnResize_NoProjection(w, h) ==
    /\ surface' = << w, h >>
    /\ camera' = camera

\* Game::OnResize: DXCore::OnResize rebuilds the surface, then the
\* projection is recomputed from the new width and height
OnResize(w, h) ==
    /\ surface' = << w, h >>
    /\ camera' = SetProjectionMat(camera, w, h)

\* the windowing shell stores the new client size and dispatches OnResize
DispatchResize ==
    /\ pc = "loop"
    /\ ~quitRequested
    /\ \E sz \in Sizes :
         /\ << width, height >> # sz
         /\ width' = sz[1]
         /\ height' = sz[2]
         /\ OnResize(sz[1], sz[2])
    /\ UNCHANGED << pc, dpc, frame, files, handle, acquireLog, releaseLog,
                    emitterArgs, loadLog, entity, ctx, frameLog, quitRequested,
                    lastKey, prevMousePos, lastEvent, rotateCalls, captured,
                    mouseCount >>

(* ---------------------------- Update ----------------------------------- *)
\* variant: entityTwo is moved but its matrix is not finalized
UpdateEntities_MissingFinalize(ent) ==
    FinalizeMatrix(SetScale(
        SetPosition(
            FinalizeMatrix(SetRotation(ent, "entityOne"), "entityOne"),
            "entityTwo"),
        "entityThree"), "entityThree")

\* the three entity updates of Game::Update, each setter followed by FinalizeMatrix
UpdateEntities(ent) ==
    FinalizeMatrix(SetScale(
        FinalizeMatrix(SetPosition(
            FinalizeMatrix(SetRotation(ent, "entityOne"), "entityOne"),
            "entityTwo"), "entityTwo"),
        "entityThree"), "entityThree")

\* DXCore::Quit records the request to terminate
Quit(q) == TRUE

\* variant: the escape key is read but Quit is not called
Update_NoQuit(key) ==
    /\ entity' = UpdateEntities(entity)
    /\ lastKey' = key
    /\ quitRequested' = quitRequested

\* Game::Update; key is what GetAsyncKeyState(VK_ESCAPE) returns
Update(key) ==
    /\ entity' = UpdateEntities(entity)
    /\ lastKey' = key
    /\ quitRequested' = IF key # 0 THEN Quit(quitRequested) ELSE quitRequested

(* ---------------------------- Draw ------------------------------------- *)
\* bind the entity's mesh buffers, prepare its material, draw its indices
DrawEntity(e) ==
    << [op |-> "IASetVertexBuffers", arg |-> e],
       [op |-> "IASetIndexBuffer",   arg |-> e],
       [op |-> "PrepareMaterial",    arg |-> e],
       [op |-> "DrawIndexed",        arg |-> e] >>

\* variant: the particle states are bound before the third entity is drawn
DrawProgram_ParticlesEarly ==
    << [op |-> "ClearRenderTargetView", arg |-> "backBufferRTV"],
       [op |-> "ClearDepthStencilView", arg |-> "depthStencilView"] >>
    \o DrawEntity("entityOne")
    \o DrawEntity("entityTwo")
    \o << [op |-> "OMSetBlendState",        arg |-> "particleBlendState"],
          [op |-> "OMSetDepthStencilState", arg |-> "particleDepthState"] >>
    \o DrawEntity("entityThree")
    \o << [op |-> "EmitterDraw",            arg |-> "emitter"],
          [op |-> "OMSetBlendState",        arg |-> "null"],
          [op |-> "OMSetDepthStencilState", arg |-> "null"],
          [op |-> "Present",                arg |-> "swapChain"] >>

\* variant: the second draw uses the first entity's index count
DrawProgram_WrongCount ==
    << [op |-> "ClearRenderTargetView", arg |-> "backBufferRTV"],
       [op |-> "ClearDepthStencilView", arg |-> "depthStencilView"] >>
    \o DrawEntity("entityOne")
    \o << [op |-> "IASetVertexBuffers", arg |-> "entityTwo"],
          [op |-> "IASetIndexBuffer",   arg |-> "entityTwo"],
          [op |-> "PrepareMaterial",    arg |-> "entityTwo"],
          [op |-> "DrawIndexed",        arg |-> "entityOne"] >>
    \o DrawEntity("entityThree")
    \o << [op |-> "OMSetBlendState",        arg |-> "particleBlendState"],
          [op |-> "OMSetDepthStencilState", arg |-> "particleDepthState"],
          [op |-> "EmitterDraw",            arg |-> "emitter"],
          [op |-> "OMSetBlendState",        arg |-> "null"],
          [op |-> "OMSetDepthStencilState", arg |-> "null"],
          [op |-> "Present",                arg |-> "swapChain"] >>

\* variant: the blend and depth states are not reset after the emitter draw
DrawProgram_NoReset ==
    << [op |-> "ClearRenderTargetView", arg |-> "backBufferRTV"],
       [op |-> "ClearDepthStencilView", arg |-> "depthStencilView"] >>
    \o DrawEntity("entityOne")
    \o DrawEntity("entityTwo")
    \o DrawEntity("entityThree")
    \o << [op |-> "OMSetBlendState",        arg |-> "particleBlendState"],
          [op |-> "OMSetDepthStencilState", arg |-> "particleDepthState"],
          [op |-> "EmitterDraw",            arg |-> "emitter"],
          [op |-> "Present",                arg |-> "swapChain"] >>

\* the statements of Game::Draw in source order
DrawProgram ==
    << [op |-> "ClearRenderTargetView", arg |-> "backBufferRTV"],
       [op |-> "ClearDepthStencilView", arg |-> "depthStencilView"] >>
    \o DrawEntity("entityOne")
    \o DrawEntity("entityTwo")
    \o DrawEntity("entityThree")
    \o << [op |-> "OMSetBlendState",        arg |-> "particleBlendState"],
          [op |-> "OMSetDepthStencilState", arg |-> "particleDepthState"],
          [op |-> "EmitterDraw",            arg |-> "emitter"],
          [op |-> "OMSetBlendState",        arg |-> "null"],
          [op |-> "OMSetDepthStencilState", arg |-> "null"],
          [op |-> "Present",                arg |-> "swapChain"] >>

\* effect of one statement on the device context
ExecOp(c, ins) ==
    CASE ins.op = "IASetVertexBuffers" ->
             [c EXCEPT !.vb = VertexBufferOf(entity[ins.arg].mesh)]
      [] ins.op = "IASetIndexBuffer" ->
             [c EXCEPT !.ib = IndexBufferOf(entity[ins.arg].mesh)]
      [] ins.op = "PrepareMaterial" ->
             [c EXCEPT !.prepared = ins.arg]
      [] ins.op = "OMSetBlendState" ->
             [c EXCEPT !.blend = ins.arg]
      [] ins.op = "OMSetDepthStencilState" ->
             [c EXCEPT !.depth = ins.arg]
      [] OTHER -> c

\* what the graphics layer observes when the statement is issued
LogEntry(c, ins) ==
    [op |-> ins.op, arg |-> ins.arg,
     vb |-> c.vb, ib |-> c.ib, prepared |-> c.prepared,
     blend |-> c.blend, depth |-> c.depth,
     count |-> IF ins.op = "DrawIndexed"
               THEN IndexCountOf(entity[ins.arg].mesh)
               ELSE IndexCountOf("none"),
     stale |-> IF ins.arg \in Entities THEN entity[ins.arg].dirty ELSE FALSE,
     proj |-> camera.proj]

\* one statement of Game::Draw
DrawStep ==
    /\ pc = "draw"
    /\ LET ins == DrawProgram[dpc]
           c == ExecOp(ctx, ins)
       IN /\ ctx' = c
          /\ frameLog' = Append(frameLog, LogEntry(c, ins))
    /\ IF dpc = Len(DrawProgram)
       THEN pc' = "loop" /\ dpc' = 0
       ELSE pc' = "draw" /\ dpc' = dpc + 1
    /\ UNCHANGED << frame, files, handle, acquireLog, releaseLog, emitterArgs,
                    loadLog, entity, camera, width, height, surface,
                    quitRequested, lastKey, prevMousePos, lastEvent,
                    rotateCalls, captured, mouseCount >>

(* ---------------------------- frame pump ------------------------------- *)
\* the frame pump calls Update ...
PumpUpdate ==
    /\ pc = "loop"
    /\ ~quitRequested
    /\ frame < MaxFrames
    /\ \E key \in KeyStates : Update(key)
    /\ pc' = "updated"
    /\ frame' = frame + 1
    /\ UNCHANGED << dpc, files, handle, acquireLog, releaseLog, emitterArgs,
                    loadLog, camera, width, height, surface, ctx, frameLog,
                    prevMousePos, lastEvent, rotateCalls, captured, mouseCount >>

\* ... then Draw, unless termination has been requested
PumpDraw ==
    /\ pc = "updated"
    /\ ~quitRequested
    /\ pc' = "draw"
    /\ dpc' = 1
    /\ frameLog' = << >>
    /\ UNCHANGED << frame, files, handle, acquireLog, releaseLog, emitterArgs,
                    loadLog, entity, camera, width, height, surface, ctx,
                    quitRequested, lastKey, prevMousePos, lastEvent,
                    rotateCalls, captured, mouseCount >>

\* the pump leaves its loop once termination has been requested
PumpExit ==
    /\ pc \in {"loop", "updated"}
    /\ quitRequested
    /\ pc' = "exited"
    /\ UNCHANGED << dpc, frame, files, handle, acquireLog, releaseLog,
                    emitterArgs, loadLog, entity, camera, width, height,
                    surface, ctx, frameLog, quitRequested, lastKey,
                    prevMousePos, lastEvent, rotateCalls, captured, mouseCount >>

(* ---------------------------- ~Game ------------------------------------ *)
\* the statements of Game::~Game in source order
DestructorProgram ==
    << [kind |-> "delete",   f |-> "vertexShader"],
       [kind |-> "delete",   f |-> "pixelShader"],
       [kind |-> "ifdelete", f |-> "sphereMesh"],
       [kind |-> "ifdelete", f |-> "helixMesh"],
       [kind |-> "ifdelete", f |-> "cubeMesh"],
       [kind |-> "ifdelete", f |-> "entityOne"],
       [kind |-> "ifdelete", f |-> "entityTwo"],
       [kind |-> "ifdelete", f |-> "entityThree"],
       [kind |-> "ifdelete", f |-> "gameCamera"],
       [kind |-> "ifdelete", f |-> "mat1"],
       [kind |-> "ifdelete", f |-> "mat2"],
       [kind |-> "release",  f |-> "particleTexture"],
       [kind |-> "release",  f |-> "particleBlendState"],
       [kind |-> "release",  f |-> "particleDepthState"],
       [kind |-> "delete",   f |-> "particleVS"],
       [kind |-> "delete",   f |-> "particlePS"],
       [kind |-> "delete",   f |-> "emitter"],
       [kind |-> "release",  f |-> "sampler"],
       [kind |-> "release",  f |-> "rockSRV"],
       [kind |-> "release",  f |-> "woodSRV"] >>

\* runs the destructor from statement i; ub is how the build behaves when a
\* pointer that holds no live object is released (crash, or carry on)
RECURSIVE RunDestructor(_, _, _, _)
RunDestructor(h, log, i, ub) ==
    IF i > Len(DestructorProgram)
    THEN [h |-> h, log |-> log, crashed |-> FALSE]
    ELSE LET ins == DestructorProgram[i]
             v == h[ins.f]
         IN CASE v = "Live" ->
                     RunDestructor([h EXCEPT ![ins.f] = "Released"],
                                   Append(log, ins.f), i + 1, ub)
              [] v = "Null" /\ ins.kind # "release" ->
                     RunDestructor(h, log, i + 1, ub)
              [] v = "Null" /\ ins.kind = "release" ->
                     [h |-> h, log |-> log, crashed |-> TRUE]
              [] OTHER ->
                     IF ub = "crash"
                     THEN [h |-> h, log |-> Append(log, ins.f), crashed |-> TRUE]
                     ELSE RunDestructor(h, Append(log, ins.f), i + 1, ub)

\* Game::~Game, run when the pump has returned
Destroy ==
    /\ pc = "exited"
    /\ \E ub \in {"crash", "survive"} :
         LET r == RunDestructor(handle, releaseLog, 1, ub)
         IN /\ handle' = r.h
            /\ releaseLog' = r.log
            /\ pc' = IF r.crashed THEN "crashed" ELSE "destroyed"
    /\ UNCHANGED << dpc, frame, files, acquireLog, emitterArgs, loadLog,
                    entity, camera, width, height, surface, ctx, frameLog,
                    quitRequested, lastKey, prevMousePos, lastEvent,
                    rotateCalls, captured, mouseCount >>

(* ---------------------------- mouse input ------------------------------ *)
\* MK_LBUTTON is bit 0 of the button state
LeftButton(bs) == bs % 2 = 1

\* the values an unset prevMousePos may happen to hold (none once it is set)
Garbage == IF prevMousePos.valid THEN { << prevMousePos.x, prevMousePos.y >> } ELSE Positions

\* reading prevMousePos; g is what an unset prevMousePos happens to hold
ReadPrev(g) == IF prevMousePos.valid THEN << prevMousePos.x, prevMousePos.y >> ELSE g

\* Camera::RotateCamera: yaw and pitch accumulate, pitch is clamped
RotateCamera(cam, dx, dy) ==
    LET p == cam.pitch + dy
    IN [cam EXCEPT !.yaw = @ + dx,
                   !.pitch = IF p > 89 THEN 89 ELSE IF p < -89 THEN -89 ELSE p]

\* Game::OnMouseDown
OnMouseDown(bs, x, y) ==
    /\ prevMousePos' = [valid |-> TRUE, x |-> x, y |-> y]
    /\ captured' = TRUE
    /\ UNCHANGED << camera, rotateCalls >>

\* Game::OnMouseUp
OnMouseUp(bs, x, y) ==
    /\ captured' = FALSE
    /\ UNCHANGED << prevMousePos, camera, rotateCalls >>

\* variant: any held button rotates the camera, not only the left one
OnMouseMove_AnyButton(bs, x, y, g) ==
    LET prev == ReadPrev(g)
    IN /\ IF bs # 0 /\ (x # prev[1] \/ y # prev[2])
          THEN /\ camera' = RotateCamera(camera, x - prev[1], y - prev[2])
               /\ rotateCalls' = Append(rotateCalls, << x - prev[1], y - prev[2] >>)
          ELSE UNCHANGED << camera, rotateCalls >>
       /\ prevMousePos' = [valid |-> TRUE, x |-> x, y |-> y]
       /\ UNCHANGED captured

\* Game::OnMouseMove
OnMouseMove(bs, x, y, g) ==
    LET prev == ReadPrev(g)
    IN /\ IF LeftButton(bs) /\ (x # prev[1] \/ y # prev[2])
          THEN /\ camera' = RotateCamera(camera, x - prev[1], y - prev[2])
               /\ rotateCalls' = Append(rotateCalls, << x - prev[1], y - prev[2] >>)
          ELSE UNCHANGED << camera, rotateCalls >>
       /\ prevMousePos' = [valid |-> TRUE, x |-> x, y |-> y]
       /\ UNCHANGED captured

\* Game::OnMouseWheel
OnMouseWheel(wheelDelta, x, y) ==
    UNCHANGED << prevMousePos, camera, rotateCalls, captured >>

\* what the event found when it was delivered
Delivered(kind, bs, x, y, g) ==
    [kind |-> kind, bs |-> bs, pos |-> << x, y >>,
     storedBefore |-> prevMousePos,
     readPrev |-> ReadPrev(g),
     camBefore |-> camera,
     callsBefore |-> Len(rotateCalls),
     hadPrior |-> lastEvent.kind \in {"down", "move"} \/ lastEvent.hadPrior,
     priorPos |-> IF lastEvent.kind \in {"down", "move"} THEN lastEvent.pos
                  ELSE lastEvent.priorPos]

MouseFrame ==
    /\ pc = "loop"
    /\ mouseCount < MaxMouseEvents
    /\ mouseCount' = mouseCount + 1
    /\ UNCHANGED << pc, dpc, frame, files, handle, acquireLog, releaseLog,
                    emitterArgs, loadLog, entity, width, height, surface, ctx,
                    frameLog, quitRequested, lastKey >>

DispatchMouseDown ==
    /\ MouseFrame
    /\ \E bs \in ButtonStates, x \in Coords, y \in Coords :
         /\ OnMouseDown(bs, x, y)
         /\ lastEvent' = Delivered("down", bs, x, y, << x, y >>)

DispatchMouseUp ==
    /\ MouseFrame
    /\ \E bs \in ButtonStates, x \in Coords, y \in Coords :
         /\ OnMouseUp(bs, x, y)
         /\ lastEvent' = Delivered("up", bs, x, y, << x, y >>)

DispatchMouseMove ==
    /\ MouseFrame
    /\ \E bs \in ButtonStates, x \in Coords, y \in Coords, g \in Garbage :
         /\ OnMouseMove(bs, x, y, g)
         /\ lastEvent' = Delivered("move", bs, x, y, g)

DispatchMouseWheel ==
    /\ MouseFrame
    /\ \E wheelDelta \in {-1, 1}, x \in Coords, y \in Coords :
         /\ OnMouseWheel(wheelDelta, x, y)
         /\ lastEvent' = Delivered("wheel", 0, x, y, << x, y >>)

(* ---------------------------- specifications --------------------------- *)
Next ==
    \/ GameInit
    \/ DispatchResize
    \/ PumpUpdate
    \/ PumpDraw
    \/ DrawStep
    \/ PumpExit
    \/ Destroy

Spec == Init /\ [][Next]_vars

NextMouse ==
    \/ GameInit
    \/ DispatchMouseDown
    \/ DispatchMouseUp
    \/ DispatchMouseMove
    \/ DispatchMouseWheel

SpecMouse == InitDeployed /\ [][NextMouse]_vars

(* ---------------------------- properties ------------------------------- *)
\* Draw has returned and its recorded operations are in frameLog
DrawReturned == pc # "draw" /\ frameLog # << >>

OpIndices(op) == { i \in 1..Len(frameLog) : frameLog[i].op = op }

EntityOps == {"IASetVertexBuffers", "IASetIndexBuffer", "PrepareMaterial", "DrawIndexed"}

StateOps == {"OMSetBlendState", "OMSetDepthStencilState"}

\* the stage of the frame an operation belongs to
Stage(en) ==
    CASE en.op \in {"ClearRenderTargetView", "ClearDepthStencilView"} -> 0
      [] en.op \in EntityOps -> 1
      [] en.op \in StateOps /\ en.arg # "null" -> 2
      [] en.op = "EmitterDraw" -> 3
      [] en.op \in StateOps /\ en.arg = "null" -> 4
      [] en.op = "Present" -> 5

\* C1: within a Draw the recorded operations never go back to an earlier
\* stage (clear, entity draws, particle state binding, emitter draw, state
\* reset, present), and a Draw that has returned went through every stage:
\* both clears, the three entity draws, both particle states, the emitter
\* draw, both resets, and Present as its last operation.
C1_DrawOrder ==
    /\ \A i, j \in 1..Len(frameLog) :
          i < j => Stage(frameLog[i]) <= Stage(frameLog[j])
    /\ DrawReturned =>
          /\ Cardinality(OpIndices("ClearRenderTargetView")) = 1
          /\ Cardinality(OpIndices("ClearDepthStencilView")) = 1
          /\ { frameLog[i].arg : i \in OpIndices("DrawIndexed") } = Entities
          /\ \E i \in OpIndices("OMSetBlendState") : frameLog[i].arg = "particleBlendState"
          /\ \E i \in OpIndices("OMSetDepthStencilState") : frameLog[i].arg = "particleDepthState"
          /\ Cardinality(OpIndices("EmitterDraw")) = 1
          /\ \E i \in OpIndices("OMSetBlendState") : frameLog[i].arg = "null"
          /\ \E i \in OpIndices("OMSetDepthStencilState") : frameLog[i].arg = "null"
          /\ OpIndices("Present") = { Len(frameLog) }

C1_Witness ==
    /\ DrawReturned
    /\ frameLog[Len(frameLog)].op = "Present"
    /\ Cardinality(OpIndices("DrawIndexed")) = 3
    /\ \E i \in OpIndices("EmitterDraw") : \A j \in OpIndices("DrawIndexed") : j < i

C3_AcquireReleasePaired ==
    pc \in {"destroyed", "crashed"} =>
        /\ SeqToSet(releaseLog) = SeqToSet(acquireLog)
        /\ NoDuplicates(acquireLog)
        /\ NoDuplicates(releaseLog)

\* C4: while a Draw runs the camera projection is the one computed from the
\* current width and height, the surface has that size, and every operation
\* the Draw recorded saw that projection.
C4_ProjectionCurrent ==
    pc = "draw" =>
        /\ camera.proj = << width, height >>
        /\ Aspect(camera.proj) = Aspect(<< width, height >>)
        /\ surface = << width, height >>
        /\ \A i \in 1..Len(frameLog) : frameLog[i].proj = << width, height >>

C4_Witness ==
    /\ pc = "draw"
    /\ << width, height >> = << 800, 600 >>
    /\ Aspect(camera.proj) = << 4, 3 >>
    /\ \E i \in OpIndices("PrepareMaterial") : frameLog[i].proj = << 800, 600 >>

\* C5: while a Draw runs no entity's world matrix is stale, and no entity
\* was prepared or drawn with a stale world matrix.
C5_NoStaleWorldMatrix ==
    /\ pc = "draw" => \A e \in Entities : ~entity[e].dirty
    /\ \A i \in 1..Len(frameLog) :
          frameLog[i].op \in {"PrepareMaterial", "DrawIndexed"} => ~frameLog[i].stale

C5_Witness ==
    /\ frame = 1
    /\ DrawReturned
    /\ { frameLog[i].arg : i \in OpIndices("DrawIndexed") } = Entities
    /\ \A i \in OpIndices("DrawIndexed") : ~frameLog[i].stale

\* C6: after Init, for each of the four shaders the first load is of the
\* primary path, the fallback path is loaded (once, as the second and last
\* load) exactly when the primary file could not be loaded, and whatever the
\* outcome Init has run to its last statement: every object created after
\* LoadShaders exists and the topology is set.
C6_PrimaryThenFallback ==
    pc \in {"loop", "updated", "draw", "exited"} =>
        /\ \A s \in Shaders :
              LET l == loadLog[s]
              IN /\ Len(l) \in {1, 2}
                 /\ l[1].path = PrimaryPath[s]
                 /\ l[1].ok = files[PrimaryPath[s]]
                 /\ (Len(l) = 2) <=> ~files[PrimaryPath[s]]
                 /\ Len(l) = 2 =>
                       /\ l[2].path = FallbackPath[s]
                       /\ l[2].ok = files[FallbackPath[s]]
        /\ \A f \in {"mat1", "mat2", "gameCamera", "sphereMesh", "helixMesh",
                     "cubeMesh", "entityOne", "entityTwo", "entityThree"} :
              handle[f] = "Live"
        /\ ctx.topology = "TRIANGLELIST"

C6_Witness ==
    /\ pc = "loop"
    /\ \A s \in Shaders :
          /\ ~files[PrimaryPath[s]]
          /\ ~files[FallbackPath[s]]
          /\ Len(loadLog[s]) = 2
          /\ ~loadLog[s][2].ok
    /\ ctx.topology = "TRIANGLELIST"
    /\ handle["entityThree"] = "Live"

\* C7: every indexed draw is issued with the vertex buffer and index buffer
\* of the prepared entity's mesh bound and with that mesh's index count, the
\* three operations before it being the two buffer bindings and
\* PrepareMaterial of that entity; a Draw that has returned issued three
\* indexed draws, one per entity, one emitter draw and one Present.
C7_DrawPerEntity ==
    /\ \A i \in OpIndices("DrawIndexed") :
          LET en == frameLog[i]
              e == en.prepared
          IN /\ e \in Entities
             /\ en.vb = VertexBufferOf(entity[e].mesh)
             /\ en.ib = IndexBufferOf(entity[e].mesh)
             /\ en.count = IndexCountOf(entity[e].mesh)
             /\ i > 3
             /\ { frameLog[k].op : k \in (i - 3)..(i - 1) }
                   = {"IASetVertexBuffers", "IASetIndexBuffer", "PrepareMaterial"}
             /\ \A k \in (i - 3)..(i - 1) : frameLog[k].arg = e
    /\ DrawReturned =>
          /\ Cardinality(OpIndices("DrawIndexed")) = 3
          /\ { frameLog[i].prepared : i \in OpIndices("DrawIndexed") } = Entities
          /\ Cardinality(OpIndices("EmitterDraw")) = 1
          /\ Cardinality(OpIndices("Present")) = 1

C7_Witness ==
    /\ DrawReturned
    /\ \E i \in OpIndices("DrawIndexed") :
          /\ frameLog[i].prepared = "entityTwo"
          /\ frameLog[i].count = IndexCountOf("cubeMesh")
          /\ frameLog[i].vb = VertexBufferOf("cubeMesh")
    /\ Cardinality(OpIndices("Present")) = 1

\* C8: outside Draw, and at the entry of Draw, the bound blend and depth
\* states are the defaults; every indexed draw runs with the default states;
\* the particle states are bound only while the state-setting calls and the
\* emitter draw run, and the emitter draw runs with both particle states.
C8_DefaultStatesBetweenFrames ==
    /\ (pc # "draw" \/ dpc = 1) => (ctx.blend = "null" /\ ctx.depth = "null")
    /\ \A i \in 1..Len(frameLog) :
          LET en == frameLog[i]
          IN /\ en.op = "DrawIndexed" => (en.blend = "null" /\ en.depth = "null")
             /\ (en.blend # "null" \/ en.depth # "null") =>
                   en.op \in StateOps \cup {"EmitterDraw"}
             /\ en.op = "EmitterDraw" =>
                   (en.blend = "particleBlendState" /\ en.depth = "particleDepthState")

C8_Witness ==
    /\ frame = 2
    /\ pc = "loop"
    /\ Cardinality(OpIndices("DrawIndexed")) = 3
    /\ \A i \in OpIndices("DrawIndexed") : frameLog[i].blend = "null"
    /\ \E i \in OpIndices("EmitterDraw") : frameLog[i].blend = "particleBlendState"
    /\ ctx.blend = "null"

\* C9: the particle vertex shader, particle pixel shader, particle texture
\* and device handed to the Emitter constructor had all been assigned when
\* the Emitter was constructed.
C9_EmitterHandlesAssigned ==
    pc # "constructed" =>
        /\ emitterArgs.device = "Live"
        /\ emitterArgs.vs = "Live"
        /\ emitterArgs.ps = "Live"
        /\ emitterArgs.tex = "Live"

\* C10: after a mouse-down or mouse-move the stored position is the event's
\* position; a mouse-move calls RotateCamera, once and with the event
\* position minus the stored position, exactly when bit 0 of the button
\* state is set and the event position differs from the stored position,
\* and otherwise leaves the camera alone; when a down or move event came
\* before, the stored position is that event's position; mouse-down never
\* rotates; mouse-up and mouse-wheel change neither the stored position nor
\* the camera.
C10_MouseTracking ==
    LET ev == lastEvent
        rotates == ev.bs % 2 = 1 /\ ev.pos # ev.readPrev
    IN /\ ev.kind \in {"down", "move"} =>
             prevMousePos = [valid |-> TRUE, x |-> ev.pos[1], y |-> ev.pos[2]]
       /\ (ev.kind = "move" /\ rotates) =>
             /\ Len(rotateCalls) = ev.callsBefore + 1
             /\ rotateCalls[Len(rotateCalls)]
                   = << ev.pos[1] - ev.readPrev[1], ev.pos[2] - ev.readPrev[2] >>
       /\ (ev.kind = "move" /\ ~rotates) =>
             /\ Len(rotateCalls) = ev.callsBefore
             /\ camera = ev.camBefore
       /\ ev.hadPrior =>
             /\ ev.storedBefore.valid
             /\ << ev.storedBefore.x, ev.storedBefore.y >> = ev.priorPos
             /\ ev.kind = "move" => ev.readPrev = ev.priorPos
       /\ ev.kind = "down" =>
             /\ Len(rotateCalls) = ev.callsBefore
             /\ camera = ev.camBefore
       /\ ev.kind \in {"up", "wheel"} =>
             /\ prevMousePos = ev.storedBefore
             /\ Len(rotateCalls) = ev.callsBefore
             /\ camera = ev.camBefore

C10_Witness ==
    /\ lastEvent.kind = "move"
    /\ lastEvent.hadPrior
    /\ lastEvent.bs % 2 = 1
    /\ lastEvent.pos # lastEvent.priorPos
    /\ Len(rotateCalls) = lastEvent.callsBefore + 1
    /\ camera # lastEvent.camBefore
    /\ prevMousePos.x = lastEvent.pos[1]

====
